---- MODULE Spec2Model ----
(***************************************************************************)
(* Tiling, reconstruction and patch-set construction of vocal-remover:     *)
(* lib/dataset.py (make_pair, train_val_split, get_oracle_data,            *)
(* make_padding, make_training_set, make_validation_set and the lazy       *)
(* VocalRemoverValidationSet) and inference.py (reconstruct).              *)
(*                                                                         *)
(* Every function is one action.  A call's inputs are drawn in the initial *)
(* state of its specification (args), the action applies the function and  *)
(* stores what it returns (ret).  The validation cache directory is the    *)
(* only state that outlives a call (storage).                              *)
(***************************************************************************)
EXTENDS Integers, Sequences, FiniteSets, TLC

VARIABLES
    pc,          \* "call": the inputs are drawn; "done": the function returned or raised
    args,        \* the inputs of the call
    ret,         \* what the call returned, or the error it raised
    storage,     \* the validation cache directory: patch file name -> stored arrays
    patch_list,  \* the filelist of the VocalRemoverValidationSet returned by the last run
    listed,      \* for each entry of patch_list, the (pair, patch index) it was appended for
    written      \* the patch files the last make_validation_set run wrote

vars == <<pc, args, ret, storage, patch_list, listed, written>>

None == [status |-> "none"]

NoCache ==
    /\ storage = <<>>
    /\ patch_list = <<>>
    /\ listed = <<>>
    /\ written = {}

----------------------------------------------------------------------------
(* Python and numpy primitives *)

Min(a, b) == IF a <= b THEN a ELSE b

Max(a, b) == IF a >= b THEN a ELSE b

\* Python's a % b for b # 0: the result has the sign of b.
PyMod(a, b) ==
    IF b > 0 THEN a % b
    ELSE LET m == (0 - a) % (0 - b) IN 0 - m

\* int(np.ceil(a / b)) for a >= 0 and b > 0
CeilDiv(a, b) == (a + b - 1) \div b

\* An index of a slice of a sequence of n items, as Python clamps it.
SliceIdx(i, n) == IF i < 0 THEN Max(n + i, 0) ELSE Min(i, n)

\* s[lo:hi]: items lo .. hi-1, 0-based, clamped to the sequence, never an error.
Slice(s, lo, hi) ==
    LET a == SliceIdx(lo, Len(s))
        b == SliceIdx(hi, Len(s))
    IN  IF b <= a THEN <<>> ELSE SubSeq(s, a + 1, b)

RECURSIVE Repeat(_, _)
Repeat(v, n) == IF n <= 0 THEN <<>> ELSE <<v>> \o Repeat(v, n - 1)

\* np.pad(s, (l, r), mode='constant') along the time axis
Pad(s, l, r, zero) == Repeat(zero, l) \o s \o Repeat(zero, r)

RECURSIVE SeqMax(_)
SeqMax(s) == IF Len(s) = 1 THEN s[1] ELSE Max(s[1], SeqMax(Tail(s)))

Range(s) == {s[i] : i \in 1..Len(s)}

----------------------------------------------------------------------------
(* dataset.make_padding *)

make_padding_no_left(width, cropsize, offset) ==
    LET left == offset
        roi0 == cropsize - left * 2
        roi_size == IF roi0 = 0 THEN cropsize ELSE roi0
        right == roi_size - PyMod(width, roi_size)
    IN  [left |-> left, right |-> right, roi_size |-> roi_size]

make_padding_nonpositive(width, cropsize, offset) ==
    LET left == offset
        roi0 == cropsize - left * 2
        roi_size == IF roi0 <= 0 THEN cropsize ELSE roi0
        right == roi_size - PyMod(width, roi_size) + left
    IN  [left |-> left, right |-> right, roi_size |-> roi_size]

make_padding(width, cropsize, offset) ==
    LET left == offset
        roi0 == cropsize - left * 2
        roi_size == IF roi0 = 0 THEN cropsize ELSE roi0
        right == roi_size - PyMod(width, roi_size) + left
    IN  [left |-> left, right |-> right, roi_size |-> roi_size]

PadMaxWidth == 8
PadMaxCrop == 6
PadMaxOffset == 4

InitPadding ==
    /\ pc = "call"
    /\ args \in [width : 1..PadMaxWidth, cropsize : 1..PadMaxCrop, offset : 0..PadMaxOffset]
    /\ ret = None
    /\ NoCache

CallMakePadding ==
    /\ pc = "call"
    /\ ret' = make_padding(args.width, args.cropsize, args.offset)
    /\ pc' = "done"
    /\ UNCHANGED <<args, storage, patch_list, listed, written>>

SpecPadding == InitPadding /\ [][CallMakePadding]_vars

\* C2: for tile_size > 2*offset, make_padding returns left = offset,
\* roi_size = tile_size - 2*offset and a right pad with
\* (width + left + right - 2*offset) mod roi_size = 0; when width is a multiple
\* of roi_size the right pad is roi_size + left.
C2_PaddingAligned ==
    (pc = "done" /\ args.cropsize > 2 * args.offset) =>
        /\ ret.left = args.offset
        /\ ret.roi_size = args.cropsize - 2 * args.offset
        /\ (args.width + ret.left + ret.right - 2 * args.offset) % ret.roi_size = 0
        /\ (args.width % ret.roi_size = 0 => ret.right = ret.roi_size + ret.left)

C2_Witness ==
    /\ pc = "done"
    /\ args.cropsize > 2 * args.offset
    /\ args.offset > 0
    /\ args.width > ret.roi_size
    /\ args.width % ret.roi_size = 0
    /\ ret.right = ret.roi_size + ret.left

\* C3 as stated: whenever tile_size - 2*offset is zero or negative, make_padding
\* returns roi_size = tile_size, a strictly positive roi_size.
C3_Original ==
    (pc = "done" /\ args.cropsize - 2 * args.offset <= 0) =>
        /\ ret.roi_size = args.cropsize
        /\ ret.roi_size > 0

\* C3 as amended: roi_size = tile_size (strictly positive) exactly when
\* tile_size - 2*offset is zero; when it is negative the returned roi_size is
\* that negative difference, and right is computed from it with Python's
\* modulo (the call still returns).
C3_RoiFallback ==
    /\ (pc = "done" /\ args.cropsize - 2 * args.offset = 0) =>
          /\ ret.roi_size = args.cropsize
          /\ ret.roi_size > 0
          /\ ret.right = ret.roi_size - (args.width % ret.roi_size) + args.offset
    /\ (pc = "done" /\ args.cropsize - 2 * args.offset < 0) =>
          /\ ret.roi_size = args.cropsize - 2 * args.offset
          /\ ret.roi_size < 0
          /\ ret.right >= ret.roi_size + args.offset
          /\ ret.right < args.offset

C3_Witness ==
    /\ pc = "done"
    /\ args.cropsize = 2 * args.offset
    /\ ret.roi_size = args.cropsize
    /\ args.width > args.cropsize

----------------------------------------------------------------------------
(* inference.reconstruct *)

\* A magnitude divided by coef is kept as the fraction <<numerator, denominator>>;
\* the zero np.pad writes is <<0, 1>>.
Zero == <<0, 1>>

\* X / coef, frame by frame
Normalise(X, coef) == [t \in 1..Len(X) |-> <<X[t], coef>>]

\* pred * coef, frame by frame
Rescale(pred, coef) == [t \in 1..Len(pred) |-> (pred[t][1] * coef) \div pred[t][2]]

\* The predictor.  "same" returns the window it is given unchanged; "crop"
\* returns it without the declared margin on either side (h[offset:-offset]).
predict(kind, offset, X_window) ==
    IF kind = "crop" /\ offset > 0
    THEN Slice(X_window, offset, 0 - offset)
    ELSE X_window

\* X_pad[None, :, :, start:start + window_size] with start = i * roi_size
X_window(X_pad, i, roi_size, window_size) ==
    Slice(X_pad, i * roi_size, i * roi_size + window_size)

RECURSIVE Concatenate(_)
Concatenate(preds) ==
    IF preds = <<>> THEN <<>> ELSE Head(preds) \o Concatenate(Tail(preds))

TrimShift_keep(pred, roi_size, tta) == pred

\* if tta: pred = pred[:, :, roi_size // 2:]
TrimShift(pred, roi_size, tta) ==
    IF tta THEN Slice(pred, roi_size \div 2, Len(pred)) ELSE pred

reconstruct(X, window_size, offset, tta, kind) ==
    LET coef == SeqMax(X)
        p == make_padding(Len(X), window_size, offset)
        roi_size == p.roi_size
        l == IF tta THEN p.left + roi_size \div 2 ELSE p.left
        r == IF tta THEN p.right + roi_size \div 2 ELSE p.right
        n_window == IF tta THEN CeilDiv(Len(X), roi_size) + 1
                    ELSE CeilDiv(Len(X), roi_size)
        X_pad == Pad(Normalise(X, coef), l, r, Zero)
        tiles == [i \in 1..n_window |-> X_window(X_pad, i - 1, roi_size, window_size)]
        preds == [i \in 1..n_window |-> predict(kind, offset, tiles[i])]
        pred == TrimShift(Concatenate(preds), roi_size, tta)
    IN  [status |-> "ok",
         out |-> Rescale(Slice(pred, 0, Len(X)), coef),
         l |-> l, r |-> r, roi_size |-> roi_size, n_window |-> n_window,
         tiles |-> tiles]

ReconMaxWidth == 5
ReconMaxValue == 2
ReconMaxWindow == 5
ReconMaxOffset == 2

Spectrograms(maxw, maxv) == UNION {[1..w -> 1..maxv] : w \in 1..maxw}

InitReconstruct ==
    /\ pc = "call"
    /\ args \in {a \in [X : Spectrograms(ReconMaxWidth, ReconMaxValue),
                        window_size : 1..ReconMaxWindow,
                        offset : 0..ReconMaxOffset,
                        tta : BOOLEAN,
                        kind : {"same", "crop"}] :
                    a.window_size > 2 * a.offset}
    /\ ret = None
    /\ NoCache

CallReconstruct ==
    /\ pc = "call"
    /\ ret' = reconstruct(args.X, args.window_size, args.offset, args.tta, args.kind)
    /\ pc' = "done"
    /\ UNCHANGED <<args, storage, patch_list, listed, written>>

SpecReconstruct == InitReconstruct /\ [][CallReconstruct]_vars

\* C1 as stated: with a predictor that returns every window unchanged, whatever
\* margin it declares, reconstruct returns X frame for frame.
C1_Original ==
    (pc = "done" /\ args.kind = "same") => ret.out = args.X

\* C1 as amended: reconstruct returns X frame for frame, with and without tta,
\* when the predictor's output is the window without its declared margin on
\* either side: the unchanged window when the margin is 0, the window's
\* region of interest otherwise.
C1_RoundTrip ==
    (pc = "done" /\ (args.kind = "crop" \/ args.offset = 0)) =>
        /\ Len(ret.out) = Len(args.X)
        /\ \A t \in 1..Len(args.X) : ret.out[t] = args.X[t]

C1_Witness ==
    /\ pc = "done"
    /\ args.kind = "same"
    /\ args.offset = 0
    /\ args.tta
    /\ Len(args.X) > ret.roi_size
    /\ Len(args.X) % ret.roi_size # 0
    /\ \E t \in 1..Len(args.X) : args.X[t] # args.X[1]
    /\ ret.out = args.X

\* C9: every window i of reconstruct lies inside the padded spectrogram,
\* i*roi_size + tile_size <= width + l + r, so every tile handed to the model
\* is exactly tile_size frames wide, for tta False and True.
C9_TilesFullSized ==
    pc = "done" =>
        \A i \in 1..ret.n_window :
            /\ (i - 1) * ret.roi_size + args.window_size <= Len(args.X) + ret.l + ret.r
            /\ Len(ret.tiles[i]) = args.window_size

----------------------------------------------------------------------------
(* dataset.make_training_set *)

\* The padded spectrogram of a file of the given width, frame by frame: frame
\* t of the file is t, a frame np.pad added is 0.  X and y of a pair have the
\* same width and are padded alike.
PaddedFrames(width, l, r) == Pad([t \in 1..width |-> t], l, r, 0)

\* The augmentation one draw of p selects (first match wins).
Augmentations == {"swap", "mono", "inst", "none"}

\* X_dataset[idx], y_dataset[idx] after the crop is stored and augmented: the
\* window, the channel each of the 2 rows of the entry holds (1, 2, or 0 for
\* the mean of both, which the assignment broadcasts to both rows) and the
\* array the X entry was taken from.
TrainingEntry(i, start, cropsize, X_pad, aug) ==
    [file |-> i,
     start |-> start,
     frames |-> Slice(X_pad, start, start + cropsize),
     channels |-> CASE aug = "swap" -> <<2, 1>>
                    [] aug = "mono" -> <<0, 0>>
                    [] OTHER -> <<1, 2>>,
     X_from |-> IF aug = "inst" THEN "y" ELSE "X"]

\* np.random.randint(0, X_pad.shape[2] - cropsize, patches) raises ValueError
\* when the range is empty.
RandintHigh(width, cropsize, offset) ==
    LET p == make_padding(width, cropsize, offset)
    IN  width + p.left + p.right - cropsize

\* The entries one file can contribute: every choice of patches starts in
\* [0, high) and of one augmentation per patch.
FileEntries(i, width, cropsize, patches, offset) ==
    LET p == make_padding(width, cropsize, offset)
        X_pad == PaddedFrames(width, p.left, p.right)
        high == RandintHigh(width, cropsize, offset)
    IN  {[j \in 1..patches |->
             TrainingEntry(i, d[j][1], cropsize, X_pad, d[j][2])] :
         d \in [1..patches -> (0..(high - 1)) \X Augmentations]}

\* The datasets the loop can have filled after files 1..i, or the error it stopped at.
RECURSIVE TrainingRuns(_, _, _, _, _)
TrainingRuns(filelist, i, cropsize, patches, offset) ==
    IF i = 0 THEN {[status |-> "ok", dataset |-> <<>>]}
    ELSE LET before == TrainingRuns(filelist, i - 1, cropsize, patches, offset)
             failed == {b \in before : b.status # "ok"}
             passed == {b \in before : b.status = "ok"}
         IN  IF RandintHigh(filelist[i], cropsize, offset) <= 0
             THEN failed \cup
                  {[status |-> "ValueError", dataset |-> b.dataset] : b \in passed}
             ELSE failed \cup
                  {[status |-> "ok", dataset |-> b.dataset \o e] :
                      b \in passed,
                      e \in FileEntries(i, filelist[i], cropsize, patches, offset)}

\* What make_training_set can return: the filled dataset of patches * len(filelist)
\* entries, or the error raised.
make_training_set(filelist, cropsize, patches, offset) ==
    LET len_dataset == patches * Len(filelist)
    IN  {IF run.status = "ok"
         THEN [status |-> "ok", len_dataset |-> len_dataset, dataset |-> run.dataset]
         ELSE [status |-> run.status] :
         run \in TrainingRuns(filelist, Len(filelist), cropsize, patches, offset)}

TrainMaxFiles == 2
TrainMaxPatches == 2
TrainMaxWidth == 3
TrainMaxCrop == 3
TrainMaxOffset == 1

InitTraining ==
    /\ pc = "call"
    /\ args \in {a \in [filelist : UNION {[1..n -> 1..TrainMaxWidth] : n \in 1..TrainMaxFiles},
                        cropsize : 1..TrainMaxCrop,
                        patches : 1..TrainMaxPatches,
                        offset : 0..TrainMaxOffset] :
                    a.cropsize >= 2 * a.offset}
    /\ ret = None
    /\ NoCache

CallMakeTrainingSet ==
    /\ pc = "call"
    /\ ret' \in make_training_set(args.filelist, args.cropsize, args.patches, args.offset)
    /\ pc' = "done"
    /\ UNCHANGED <<args, storage, patch_list, listed, written>>

SpecTraining == InitTraining /\ [][CallMakeTrainingSet]_vars

\* C5: for every pair list with n_files >= 1, patches_per_file >= 1 and every
\* width > 0, make_training_set completes without error and returns
\* patches_per_file * n_files entries of 2 channels and cropsize frames, entry
\* i*patches_per_file + j being a full cropsize-wide window of file i's padded
\* spectrogram whose start lies in [0, padded_width - cropsize).
C5_TrainingSetShape ==
    pc = "done" =>
        /\ ret.status = "ok"
        /\ Len(ret.dataset) = args.patches * Len(args.filelist)
        /\ \A idx \in 1..Len(ret.dataset) :
              LET e == ret.dataset[idx]
                  i == (idx - 1) \div args.patches + 1
              IN  /\ e.file = i
                  /\ Len(e.channels) = 2
                  /\ Len(e.frames) = args.cropsize
                  /\ e.start >= 0
                  /\ e.start < RandintHigh(args.filelist[i], args.cropsize, args.offset)

----------------------------------------------------------------------------
(* dataset.make_validation_set and VocalRemoverValidationSet *)

\* The mixture files a pair list can name.  A pair is identified by its
\* X_path; two files of one directory may differ in the extension alone.
ValPaths ==
    {[stem |-> "a", ext |-> ".wav"], [stem |-> "a", ext |-> ".mp3"],
     [stem |-> "b", ext |-> ".wav"]}

\* os.path.splitext(os.path.basename(X_path))[0]
basename(X_path) == X_path.stem

\* os.path.join(patch_dir, '{}_p{}.npz'.format(basename, j)); every run of one
\* configuration has the same patch_dir.
outpath(X_path, j) == [basename |-> basename(X_path), p |-> j]

ValidationStart_by_cropsize(j, roi_size, cropsize) == j * cropsize

\* start = j * roi_size
ValidationStart(j, roi_size, cropsize) == j * roi_size

\* The arrays np.savez stores for patch j of a pair: the window of the pair's
\* normalised, padded X and y (a frame is named by its pair and its index,
\* 0 for padding).
ValidationCrop(X_path, width, cropsize, offset, j) ==
    LET p == make_padding(width, cropsize, offset)
        X_pad == PaddedFrames(width, p.left, p.right)
        start == ValidationStart(j, p.roi_size, cropsize)
    IN  [pair |-> X_path, frames |-> Slice(X_pad, start, start + cropsize)]

\* len_dataset = int(np.ceil(X.shape[2] / roi_size))
ValidationLen(width, cropsize, offset) ==
    CeilDiv(width, make_padding(width, cropsize, offset).roi_size)

\* The (pair, j) iterations of the two nested loops, in order.
RECURSIVE ValidationLoop(_, _, _, _)
ValidationLoop(filelist, widths, cropsize, offset) ==
    IF filelist = <<>> THEN <<>>
    ELSE LET X_path == Head(filelist)
             n == ValidationLen(widths[X_path], cropsize, offset)
         IN  [j \in 1..n |-> [pair |-> X_path, j |-> j - 1]]
             \o ValidationLoop(Tail(filelist), widths, cropsize, offset)

\* The cache after the first k iterations: a patch is saved only if no file of
\* its name exists.
RECURSIVE SavePatches(_, _, _, _, _, _)
SavePatches(cache, loop, k, widths, cropsize, offset) ==
    IF k = 0 THEN cache
    ELSE LET before == SavePatches(cache, loop, k - 1, widths, cropsize, offset)
             it == loop[k]
             out == outpath(it.pair, it.j)
         IN  IF out \in DOMAIN before THEN before
             ELSE [o \in DOMAIN before \cup {out} |->
                      IF o = out
                      THEN ValidationCrop(it.pair, widths[it.pair], cropsize, offset, it.j)
                      ELSE before[o]]

\* VocalRemoverValidationSet.__getitem__: np.load(path), then np.abs of X and y.
getitem(cache, filelist, idx) ==
    LET data == cache[filelist[idx]]
    IN  [pair |-> data.pair, frames |-> data.frames, magnitude |-> TRUE]

ValMaxWidth == 3
ValMaxCrop == 3
ValMaxOffset == 1
ValMaxFiles == 2

\* Pair lists: distinct pairs, in any order.
ValFilelists ==
    UNION {{f \in [1..n -> ValPaths] : \A a, b \in 1..n : a # b => f[a] # f[b]} :
           n \in 0..ValMaxFiles}

InitValidation ==
    /\ pc = "call"
    /\ args \in {a \in [widths : [ValPaths -> 1..ValMaxWidth],
                        cropsize : 1..ValMaxCrop,
                        offset : 0..ValMaxOffset] :
                    a.cropsize >= 2 * a.offset}
    /\ ret = None
    /\ NoCache

\* One run of make_validation_set against the cache directory of the configuration.
RunMakeValidationSet ==
    \E filelist \in ValFilelists :
        LET loop == ValidationLoop(filelist, args.widths, args.cropsize, args.offset)
            after == SavePatches(storage, loop, Len(loop),
                                 args.widths, args.cropsize, args.offset)
        IN  /\ storage' = after
            /\ written' = DOMAIN after \ DOMAIN storage
            /\ patch_list' = [k \in 1..Len(loop) |-> outpath(loop[k].pair, loop[k].j)]
            /\ listed' = loop
            /\ ret' = [status |-> "ok", filelist |-> filelist, len |-> Len(loop)]
            /\ pc' = "done"
            /\ UNCHANGED args

SpecValidation == InitValidation /\ [][RunMakeValidationSet]_vars

\* The frame at 1-based position q of a spectrogram of the given width that is
\* zero-padded by offset on the left: frame q - offset of the file, or padding.
FrameAt(q, width, offset) == IF q - offset \in 1..width THEN q - offset ELSE 0

\* The patches this run wrote from the given pair.
PatchesWritten(X_path, n) ==
    {j \in 0..(n - 1) :
        /\ outpath(X_path, j) \in written
        /\ storage[outpath(X_path, j)].pair = X_path}

C6_ReadBack ==
    pc = "done" =>
        \A k \in 1..Len(patch_list) :
            getitem(storage, patch_list, k) =
                LET crop == ValidationCrop(listed[k].pair, args.widths[listed[k].pair],
                                           args.cropsize, args.offset, listed[k].j)
                IN  [pair |-> crop.pair, frames |-> crop.frames, magnitude |-> TRUE]

\* The rest of C6: a patch file that exists is never rewritten, and a re-run
\* with the pair list of the run before writes nothing and returns the same
\* patch list.
C6_NeverRewritten ==
    [][/\ \A o \in DOMAIN storage : o \in DOMAIN storage' /\ storage'[o] = storage[o]
       /\ (pc = "done" /\ ret'.filelist = ret.filelist) =>
              (written' = {} /\ patch_list' = patch_list)]_vars

----------------------------------------------------------------------------
(* dataset.make_pair and dataset.train_val_split *)

input_exts == {".wav", ".m4a", ".mp3", ".mp4", ".flac"}

\* The extensions of the files a directory may hold.
DirExts == {".wav", ".txt"}

ExtRank(ext) == IF ext = ".txt" THEN 1 ELSE 2

\* The order of sorted() on the joined paths of one directory: by name, the
\* stem first.
PathLess(f, g) ==
    \/ f.stem < g.stem
    \/ f.stem = g.stem /\ ExtRank(f.ext) < ExtRank(g.ext)

RECURSIVE Sorted(_)
Sorted(files) ==
    IF files = {} THEN <<>>
    ELSE LET first == CHOOSE f \in files : \A g \in files \ {f} : PathLess(f, g)
         IN  <<first>> \o Sorted(files \ {first})

\* sorted([os.path.join(dir, fname) for fname in os.listdir(dir)
\*         if os.path.splitext(fname)[1] in input_exts])
AudioList(dir, listing) ==
    Sorted({[dir |-> dir, stem |-> f.stem, ext |-> f.ext] :
            f \in {g \in listing : g.ext \in input_exts}})

Absent == [dir |-> "", stem |-> 0, ext |-> ""]

Zip_longest(X_list, y_list) ==
    [i \in 1..Max(Len(X_list), Len(y_list)) |->
        <<IF i <= Len(X_list) THEN X_list[i] ELSE Absent,
          IF i <= Len(y_list) THEN y_list[i] ELSE Absent>>]

\* list(zip(X_list, y_list)): stops at the shorter list
Zip(X_list, y_list) ==
    [i \in 1..Min(Len(X_list), Len(y_list)) |-> <<X_list[i], y_list[i]>>]

make_pair(mix_dir, inst_dir) ==
    LET X_list == AudioList("mix", mix_dir)
        y_list == AudioList("inst", inst_dir)
        filelist == Zip(X_list, y_list)
    IN  [status |-> "ok", filelist |-> filelist]

PairMaxStem == 3

Listings == SUBSET [stem : 1..PairMaxStem, ext : DirExts]

InitPair ==
    /\ pc = "call"
    /\ args \in [mix_dir : Listings, inst_dir : Listings]
    /\ ret = None
    /\ NoCache

CallMakePair ==
    /\ pc = "call"
    /\ ret' = make_pair(args.mix_dir, args.inst_dir)
    /\ pc' = "done"
    /\ UNCHANGED <<args, storage, patch_list, listed, written>>

SpecPair == InitPair /\ [][CallMakePair]_vars

\* The number of files of a listing that pass the extension filter.
AudioCount(listing) == Cardinality({f \in listing : f.ext \in input_exts})

\* The i-th name, in sorted order, of the files that pass the filter.
NthAudio(listing, i) ==
    CHOOSE f \in listing :
        /\ f.ext \in input_exts
        /\ Cardinality({g \in listing : g.ext \in input_exts /\ PathLess(g, f)}) = i - 1

\* C7 as stated: lists of different lengths make make_pair fail; a pair list
\* is returned only for lists of equal length, and then pairs the i-th mixture
\* with the i-th target.
C7_Original ==
    pc = "done" =>
        /\ AudioCount(args.mix_dir) # AudioCount(args.inst_dir) => ret.status # "ok"
        /\ ret.status = "ok" =>
              /\ AudioCount(args.mix_dir) = AudioCount(args.inst_dir)
              /\ Len(ret.filelist) = AudioCount(args.mix_dir)
              /\ \A i \in 1..Len(ret.filelist) :
                    /\ ret.filelist[i][1].stem = NthAudio(args.mix_dir, i).stem
                    /\ ret.filelist[i][2].stem = NthAudio(args.inst_dir, i).stem

\* C7 as amended: make_pair never fails on lists of different lengths; it
\* returns min(len(X_list), len(y_list)) pairs, the i-th pairing the i-th
\* mixture name with the i-th target name, and drops the surplus of the longer
\* list; with equal lengths every file is paired.
C7_PairsTruncated ==
    pc = "done" =>
        /\ ret.status = "ok"
        /\ Len(ret.filelist) = Min(AudioCount(args.mix_dir), AudioCount(args.inst_dir))
        /\ \A i \in 1..Len(ret.filelist) :
              LET x == NthAudio(args.mix_dir, i)
                  y == NthAudio(args.inst_dir, i)
              IN  ret.filelist[i] = <<[dir |-> "mix", stem |-> x.stem, ext |-> x.ext],
                                      [dir |-> "inst", stem |-> y.stem, ext |-> y.ext]>>

C7_Witness ==
    /\ pc = "done"
    /\ AudioCount(args.mix_dir) > AudioCount(args.inst_dir)
    /\ AudioCount(args.inst_dir) >= 2
    /\ ret.status = "ok"
    /\ Len(ret.filelist) = AudioCount(args.inst_dir)
    /\ ret.filelist[2][1].stem # ret.filelist[2][2].stem

\* random.shuffle(filelist): any order of the list
Shuffles(filelist) ==
    {[i \in 1..Len(filelist) |-> filelist[perm[i]]] :
        perm \in Permutations(1..Len(filelist))}

\* int(len(filelist) * val_rate) for val_rate = num / den
ValSize(n, val_rate) == (n * val_rate.num) \div val_rate.den

RECURSIVE NotIn(_, _)
\* [pair for pair in filelist if list(pair) not in val_filelist]
NotIn(filelist, val_filelist) ==
    IF filelist = <<>> THEN <<>>
    ELSE (IF Head(filelist) \in Range(val_filelist) THEN <<>> ELSE <<Head(filelist)>>)
         \o NotIn(Tail(filelist), val_filelist)

\* What train_val_split can return, one result for each order of the shuffle.
train_val_split(mix_dir, inst_dir, val_rate, val_filelist) ==
    {IF Len(val_filelist) = 0
     THEN LET val_size == ValSize(Len(filelist), val_rate)
          IN  [status |-> "ok",
               shuffled |-> filelist,
               train |-> Slice(filelist, 0, 0 - val_size),
               val |-> Slice(filelist, 0 - val_size, Len(filelist))]
     ELSE [status |-> "ok",
           shuffled |-> filelist,
           train |-> NotIn(filelist, val_filelist),
           val |-> val_filelist] :
     filelist \in Shuffles(make_pair(mix_dir, inst_dir).filelist)}

SplitRateDen == 4

\* The val_filelist arguments: none, or one named pair.
ValFilelistChoices ==
    {<<>>,
     << <<[dir |-> "mix", stem |-> 1, ext |-> ".wav"],
          [dir |-> "inst", stem |-> 1, ext |-> ".wav"]>> >>}

InitSplit ==
    /\ pc = "call"
    /\ args \in [mix_dir : Listings, inst_dir : Listings,
                 val_rate : [num : 0..(SplitRateDen - 1), den : {SplitRateDen}],
                 val_filelist : ValFilelistChoices]
    /\ ret = None
    /\ NoCache

CallTrainValSplit ==
    /\ pc = "call"
    /\ ret' \in train_val_split(args.mix_dir, args.inst_dir, args.val_rate,
                                args.val_filelist)
    /\ pc' = "done"
    /\ UNCHANGED <<args, storage, patch_list, listed, written>>

SpecSplit == InitSplit /\ [][CallTrainValSplit]_vars

\* C10: with an empty val_filelist, train and val partition the shuffled pair
\* list and len(val) = int(len(filelist) * val_rate), also when that is 0 (val
\* empty, train the whole list).
C10_SplitPartition ==
    (pc = "done" /\ args.val_filelist = <<>>) =>
        /\ Range(ret.train) \cap Range(ret.val) = {}
        /\ Range(ret.train) \cup Range(ret.val) = Range(ret.shuffled)
        /\ Len(ret.train) + Len(ret.val) = Len(ret.shuffled)
        /\ Len(ret.val) = ValSize(Len(ret.shuffled), args.val_rate)

----------------------------------------------------------------------------
(* dataset.get_oracle_data *)

\* np.argsort(instance_loss): an order of the indices with ascending loss;
\* which of several orders of equal losses it returns is not specified.
ArgSorts(instance_loss) ==
    {order \in Permutations(DOMAIN instance_loss) :
        \A i \in 1..(Len(instance_loss) - 1) :
            instance_loss[order[i]] <= instance_loss[order[i + 1]]}

\* s[::-1]
Reversed(s) == [i \in 1..Len(s) |-> s[Len(s) + 1 - i]]

\* int(len(X) * oracle_rate * (1 / (1 - oracle_drop_rate))), the rates as fractions
OracleK(len, rate, drop) ==
    (len * rate.num * drop.den) \div (rate.den * (drop.den - drop.num))

\* int(len(X) * oracle_rate)
OracleN(len, rate) == (len * rate.num) \div rate.den

OraclePool_lowest(order, k) == Slice(order, 0, k)

\* np.argsort(instance_loss)[::-1][:k]
OraclePool(order, k) == Slice(Reversed(order), 0, k)

\* np.random.choice(pool, n, replace=False): any n distinct items in any order
Choices(pool, n) ==
    {idx \in [1..n -> Range(pool)] : \A a, b \in 1..n : a # b => idx[a] # idx[b]}

\* What get_oracle_data can return.  Indices are 1-based here.
get_oracle_data(X, y, instance_loss, oracle_rate, oracle_drop_rate) ==
    LET k == OracleK(Len(X), oracle_rate, oracle_drop_rate)
        n == OracleN(Len(X), oracle_rate)
        pools == {OraclePool(order, k) : order \in ArgSorts(instance_loss)}
    IN  UNION {IF n > Len(pool)
               THEN {[status |-> "ValueError", X |-> X, y |-> y]}
               ELSE {[status |-> "ok",
                      oracle_X |-> [i \in 1..n |-> X[idx[i]]],
                      oracle_y |-> [i \in 1..n |-> y[idx[i]]],
                      idx |-> idx,
                      X |-> X, y |-> y] : idx \in Choices(pool, n)} :
               pool \in pools}

OracleMaxLen == 4
OracleMaxLoss == 1
OracleRateDen == 3

InitOracle ==
    /\ pc = "call"
    /\ \E len \in 1..OracleMaxLen :
          args \in [X : {[i \in 1..len |-> <<"X", i>>]},
                    y : {[i \in 1..len |-> <<"y", i>>]},
                    instance_loss : [1..len -> 0..OracleMaxLoss],
                    oracle_rate : [num : 0..OracleRateDen, den : {OracleRateDen}],
                    oracle_drop_rate : [num : 0..(OracleRateDen - 1), den : {OracleRateDen}]]
    /\ ret = None
    /\ NoCache

CallGetOracleData ==
    /\ pc = "call"
    /\ ret' \in get_oracle_data(args.X, args.y, args.instance_loss,
                                args.oracle_rate, args.oracle_drop_rate)
    /\ pc' = "done"
    /\ UNCHANGED <<args, storage, patch_list, listed, written>>

SpecOracle == InitOracle /\ [][CallGetOracleData]_vars

\* C8: with k = int(len(X) * oracle_rate / (1 - oracle_drop_rate)) and
\* n = int(len(X) * oracle_rate), whenever k >= n get_oracle_data returns
\* exactly n indices, pairwise distinct, each among the k indices of highest
\* instance_loss, with copies of X and y at those indices; X and y are left
\* unchanged.  (Rates in [0, 1], drop rates in [0, 1).)
C8_OracleSample ==
    LET len == Len(args.X)
        k == (len * args.oracle_rate.num * args.oracle_drop_rate.den)
             \div (args.oracle_rate.den
                   * (args.oracle_drop_rate.den - args.oracle_drop_rate.num))
        n == (len * args.oracle_rate.num) \div args.oracle_rate.den
    IN  (pc = "done" /\ k >= n) =>
            /\ ret.status = "ok"
            /\ Len(ret.idx) = n
            /\ \A a, b \in 1..n : a # b => ret.idx[a] # ret.idx[b]
            /\ \A a \in 1..n :
                  /\ ret.idx[a] \in 1..len
                  /\ Cardinality({m \in 1..len :
                        args.instance_loss[m] > args.instance_loss[ret.idx[a]]}) < k
                  /\ ret.oracle_X[a] = args.X[ret.idx[a]]
                  /\ ret.oracle_y[a] = args.y[ret.idx[a]]
            /\ Len(ret.oracle_X) = n
            /\ Len(ret.oracle_y) = n
            /\ ret.X = args.X
            /\ ret.y = args.y

C8_Witness ==
    /\ pc = "done"
    /\ ret.status = "ok"
    /\ Len(args.X) = 4
    /\ OracleN(Len(args.X), args.oracle_rate) = 1
    /\ OracleK(Len(args.X), args.oracle_rate, args.oracle_drop_rate) = 2
    /\ Len(ret.idx) = 1
    /\ Cardinality({m \in 1..4 :
          args.instance_loss[m] > args.instance_loss[ret.idx[1]]}) = 1
    /\ Cardinality({m \in 1..4 :
          args.instance_loss[m] = args.instance_loss[ret.idx[1]]}) = 3

====
